---- MODULE Spec2Model ----
(***************************************************************************)
(* A model of philhopper (src/philhopper.py, src/config.py): the           *)
(* parenthetical span detector, the link selector, the page resolver and   *)
(* the hop traversal engine.                                               *)
(*                                                                         *)
(* Text is modelled as a sequence of symbols.  A symbol is a string; the   *)
(* symbols "(", ")" and "/" stand for those characters, every other symbol *)
(* stands for a run of characters holding none of them.                    *)
(***************************************************************************)
EXTENDS Integers, Sequences, FiniteSets, TLC

VARIABLES
    pc,         \* position of the modelled call
    string,     \* parenthetic_contents: its argument
    spans,      \* parenthetic_contents: the pairs it yielded, in order
    soup,       \* extract_link: the parsed document the fetch produced
    xlink_i,    \* extract_link: its link_i argument
    xout,       \* extract_link: what the call did (see extract_link)
    start_url,  \* hop_to_philosophy: its start_url argument
    link_i,     \* hop_to_philosophy: its link_i argument
    pages,      \* hop_to_philosophy: the local list pages (the hop chain)
    next_page,  \* hop_to_philosophy: the local next_page of the last hop
    hop_i,      \* hop_to_philosophy: completed iterations of the for loop
    state,      \* hop_to_philosophy: which exit the call took
    returned,   \* hop_to_philosophy: the value handed to the caller
    calls       \* hop_to_philosophy: url_to_page_obj calls made so far

vars == <<pc, string, spans, soup, xlink_i, xout,
          start_url, link_i, pages, next_page, hop_i, state, returned, calls>>

(***************************************************************************)
(* Bounds of the model.                                                    *)
(***************************************************************************)
\* longest string handed to parenthetic_contents
MaxStrLen == 5
\* most nodes in the body of a one-paragraph document
MaxBody == 4
\* most blocks in a document of several blocks
MaxBlocks == 4
\* largest link index tried
MaxI == 2
\* config.py sets MAX_HOPS = 100; the model runs the same loop with a
\* smaller budget
MAX_HOPS == 3

\* Python's None
None == [tag |-> "None"]

\* all sequences over S of length at most n
SeqsUpTo(S, n) == UNION {[1..k -> S] : k \in 0..n}

\* the element of a set of one element
Only(S) == CHOOSE x \in S : TRUE

\* x in y, for Python strings
IsSubstring(x, y) ==
    \E off \in 0..(Len(y) - Len(x)) : SubSeq(y, off + 1, off + Len(x)) = x

(***************************************************************************)
(* HELPERS                                                                 *)
(***************************************************************************)

\* One iteration of the loop of parenthetic_contents at (1-based) index k,
\* depth taken before the pop.
ParenStepDepthBeforePop(s, k, st) ==
    IF s[k] = "("
    THEN [stack |-> Append(st.stack, k), out |-> st.out]
    ELSE IF s[k] = ")" /\ st.stack # <<>>
         THEN LET start == st.stack[Len(st.stack)]
                  rest == SubSeq(st.stack, 1, Len(st.stack) - 1)
              IN  [stack |-> rest,
                   out |-> Append(st.out,
                                  <<Len(st.stack), SubSeq(s, start + 1, k - 1)>>)]
         ELSE st

\* One iteration of the loop of parenthetic_contents at (1-based) index k:
\* st.stack is the list stack, st.out the pairs yielded so far.
ParenStep(s, k, st) ==
    IF s[k] = "("
    THEN [stack |-> Append(st.stack, k), out |-> st.out]
    ELSE IF s[k] = ")" /\ st.stack # <<>>
         THEN LET start == st.stack[Len(st.stack)]
                  rest == SubSeq(st.stack, 1, Len(st.stack) - 1)
              IN  [stack |-> rest,
                   out |-> Append(st.out,
                                  <<Len(rest), SubSeq(s, start + 1, k - 1)>>)]
         ELSE st

\* The iterations of the loop for the indices lo..hi, in order, from the
\* loop state st.  The range is halved and the state after the first half
\* is bound as a value, which keeps the evaluation shallow.
RECURSIVE ParenScan(_, _, _, _)
ParenScan(s, lo, hi, st) ==
    IF lo > hi THEN st
    ELSE IF lo = hi THEN ParenStep(s, lo, st)
    ELSE LET mid == (lo + hi) \div 2
         IN  Only({ParenScan(s, mid + 1, hi, half) :
                      half \in {ParenScan(s, lo, mid, st)}})

\* list(parenthetic_contents(string))
parenthetic_contents(string_) ==
    Only({ParenScan(s, 1, Len(s), st).out :
             s \in {string_}, st \in {[stack |-> <<>>, out |-> <<>>]}})

(***************************************************************************)
(* LINK EXTRACTION                                                         *)
(*                                                                         *)
(* The parsed document (soup) is a record: blocks is the sequence of its   *)
(* block elements in document order and containers the nesting depth of    *)
(* the recognised containers (div.mw-parser-output, div.mw-body-content,   *)
(* div.vector-body) around the blocks marked in_container: find_all        *)
(* returns each of them, so a block inside n of them is found n times.     *)
(* A block is [tag, class, in_container, body]; body is a sequence of      *)
(* nodes, each a text node [kind |-> "text", text] or an anchor            *)
(* [kind |-> "a", has_href, href, has_title, title, text].                 *)
(***************************************************************************)

\* a Python str value (None is the other value a result slot may hold)
PyStr(s) == [str |-> s]

\* a Python list value, where None may stand in its place
PyList(l) == [list |-> l]

\* the concatenation of the sequences of the sequence ss
RECURSIVE Concat(_)
Concat(ss) == IF ss = <<>> THEN <<>> ELSE Head(ss) \o Concat(Tail(ss))

\* s.startswith(prefix)
StartsWith(s, prefix) ==
    Len(s) >= Len(prefix) /\ SubSeq(s, 1, Len(prefix)) = prefix

\* the prefix "/wiki/" of lines 195 and 217
WikiPrefix == <<"/", "wiki", "/">>

\* str(node)
StrNode(n) ==
    IF n.kind = "text" THEN n.text
    ELSE <<"<a">>
         \o (IF n.has_href THEN <<" href=\"">> \o n.href \o <<"\"">> ELSE <<>>)
         \o (IF n.has_title THEN <<" title=\"">> \o n.title \o <<"\"">> ELSE <<>>)
         \o <<">">> \o n.text \o <<"</a>">>

\* str(block)
StrBlock(b) ==
    <<"<", b.tag, " class=\"", b.class, "\">">>
    \o Concat([k \in 1..Len(b.body) |-> StrNode(b.body[k])])
    \o <<"</", b.tag, ">">>

\* str(soup)
StrSoup(blocks) == Concat([k \in 1..Len(blocks) |-> StrBlock(blocks[k])])

\* the subtrees the clean-up decomposes
Decomposed(b) ==
    \/ b.tag = "div" /\ b.class = "thumb"
    \/ b.tag = "table" /\ b.class = "sidebar"
    \/ b.tag = "table"
    \/ b.tag = "div" /\ b.class = "hatnote"

\* the document after the clean-up
CleanUp(blocks) == LET Kept(b) == ~Decomposed(b) IN SelectSeq(blocks, Kept)

\* element.find_all("a") on a block
AnchorsOf(b) == LET IsA(n) == n.kind = "a" IN SelectSeq(b.body, IsA)

\* ps: the p elements of every container, container by container
Paragraphs(d) ==
    LET InP(b) == b.tag = "p" /\ b.in_container
        found == SelectSeq(CleanUp(d.blocks), InP)
    IN  Concat([c \in 1..d.containers |-> found])

\* a.has_attr("href") and a["href"].startswith("/wiki/")
IsWikiLink(a) == a.has_href /\ StartsWith(a.href, WikiPrefix)

\* [s[1] for s in nested_paren_contents]
StrsInParen(text) ==
    LET pcs == parenthetic_contents(text) IN [k \in 1..Len(pcs) |-> pcs[k][2]]

\* the in_paren flag the inner loop computes for anchor a
InParen(a, strs_in_paren) ==
    \E k \in 1..Len(strs_in_paren) : IsSubstring(StrNode(a), strs_in_paren[k])

\* the links one iteration of the paragraph loop appends
ParagraphLinks(p) ==
    LET strs_in_paren == StrsInParen(StrBlock(p))
        Taken(a) == IsWikiLink(a) /\ ~InParen(a, strs_in_paren)
    IN  SelectSeq(AnchorsOf(p), Taken)

\* look in first x paragraphs
max_paras == 3

\* the paragraph loop from paragraph n on (lines 186-208)
RECURSIVE PrimaryScan(_, _, _, _, _)
PrimaryScan(ps, n, x, links, i) ==
    IF n > x THEN links
    ELSE LET more == links \o ParagraphLinks(ps[n])
         IN  IF Len(more) >= i THEN more
             ELSE PrimaryScan(ps, n + 1, x, more, i)

\* links after the primary strategy
PrimaryLinks(d, i) ==
    LET ps == Paragraphs(d)
        x == IF Len(ps) > max_paras THEN max_paras ELSE Len(ps)
    IN  PrimaryScan(ps, 1, x, <<>>, i)

\* list.remove(a): drop the first element equal to a
RECURSIVE RemoveFirst(_, _)
RemoveFirst(l, a) ==
    IF l = <<>> THEN <<>>
    ELSE IF Head(l) = a THEN Tail(l)
    ELSE <<Head(l)>> \o RemoveFirst(Tail(l), a)

\* the loop "for a in links: ... links.remove(a)" with the list iterator at
\* (1-based) position idx: the iterator advances by one whether or not the
\* list shrank under it
RECURSIVE RemoveLoop(_, _, _)
RemoveLoop(links, idx, strs_in_paren) ==
    IF idx > Len(links) THEN links
    ELSE LET a == links[idx]
             after == IF InParen(a, strs_in_paren)
                      THEN RemoveFirst(links, a) ELSE links
         IN  Only({RemoveLoop(l, idx + 1, strs_in_paren) : l \in {after}})

\* links after the fallback strategy (lines 216-232)
FallbackLinks(d) ==
    LET soup1 == CleanUp(d.blocks)
        all == Concat([k \in 1..Len(soup1) |-> AnchorsOf(soup1[k])])
        collected == SelectSeq(all, IsWikiLink)
    IN  Only({RemoveLoop(l, 1, strs) :
                 l \in {collected}, strs \in {StrsInParen(StrSoup(soup1))}})

\* the fallback runs when the primary strategy collected fewer than link_i
RunsFallbackBelowI(primary, i) == Len(primary) < i

\* if len(links) == 0 (line 212)
RunsFallback(primary, i) == Len(primary) = 0

NoneTriple == <<None, None, None>>

\* lines 237-243 on the final list links; link["title"] raises KeyError on
\* an anchor without that attribute
ReturnLink(links, i) ==
    IF Len(links) < i
    THEN [raised |-> FALSE, ret |-> NoneTriple]
    ELSE LET link == links[i]
         IN  IF link.has_title
             THEN [raised |-> FALSE,
                   ret |-> <<PyStr(link.href), PyStr(link.text), PyStr(link.title)>>]
             ELSE [raised |-> TRUE, ret |-> None]

\* extract_link on the document the fetch produced: primary is the list
\* links after the paragraph loop, fallbacks the number of times the
\* second strategy ran, links the final list, raised and ret the outcome
extract_link(d, i) ==
    LET primary == PrimaryLinks(d, i)
        fb == RunsFallback(primary, i)
        links == IF fb THEN FallbackLinks(d) ELSE primary
        r == ReturnLink(links, i)
    IN  [primary |-> primary, fallbacks |-> IF fb THEN 1 ELSE 0,
         links |-> links, raised |-> r.raised, ret |-> r.ret]

(***************************************************************************)
(* The specification of the calls of parenthetic_contents.                 *)
(***************************************************************************)
ParenAlphabet == {"(", ")", "a", "b"}
ExampleString == <<"(", "a", "(", "b", ")", "c", ")">>
ParenInputs == SeqsUpTo(ParenAlphabet, MaxStrLen) \cup {ExampleString}

NoTraversal ==
    /\ start_url = <<>> /\ link_i = 0 /\ pages = <<>> /\ next_page = None
    /\ hop_i = 0 /\ state = "Start" /\ returned = None /\ calls = 0

NoExtraction == soup = None /\ xlink_i = 0 /\ xout = None

InitParen ==
    /\ pc = "paren_call"
    /\ string \in ParenInputs
    /\ spans = <<>>
    /\ NoExtraction
    /\ NoTraversal

CallParentheticContents ==
    /\ pc = "paren_call"
    /\ spans' = parenthetic_contents(string)
    /\ pc' = "paren_done"
    /\ UNCHANGED <<string, soup, xlink_i, xout,
                   start_url, link_i, pages, next_page,
                   hop_i, state, returned, calls>>

NextParen == CallParentheticContents

SpecParen == InitParen /\ [][NextParen]_vars

(***************************************************************************)
(* The specification of the calls of extract_link: the documents tried.    *)
(***************************************************************************)
Text(s) == [kind |-> "text", text |-> s]
Anchor(href, title) ==
    [kind |-> "a", has_href |-> TRUE, href |-> href,
     has_title |-> TRUE, title |-> title, text |-> title]

LParen == Text(<<"(">>)
RParen == Text(<<")">>)
WikiHref(name) == WikiPrefix \o <<name>>
ADog == Anchor(WikiHref("Dog"), <<"Dog">>)
ADomestication == Anchor(WikiHref("Domestication"), <<"Domestication">>)
AAnimal == Anchor(WikiHref("Animal"), <<"Animal">>)
\* a link out of the encyclopedia
AExternal == Anchor(<<"http:", "/", "/", "example.org">>, <<"ext">>)
\* an image link: an internal target and no title attribute
AFile == [kind |-> "a", has_href |-> TRUE, href |-> WikiHref("File:Dog.jpg"),
          has_title |-> FALSE, title |-> <<>>, text |-> <<>>]
\* a named anchor: no href attribute
ANamed == [kind |-> "a", has_href |-> FALSE, href |-> <<>>,
           has_title |-> FALSE, title |-> <<>>, text |-> <<"cite">>]

Block(tag, class, in_container, body) ==
    [tag |-> tag, class |-> class, in_container |-> in_container, body |-> body]
P(body) == Block("p", "", TRUE, body)

\* documents of one paragraph: every body over BodyNodes
BodyNodes == {LParen, RParen, ADog, ADomestication, AFile}
\* the paragraph with links [L1 (in parens), L2, L3]
ExampleParagraph == P(<<LParen, ADog, RParen, ADomestication, AAnimal>>)
OneParagraphDocs ==
    {[containers |-> 1, blocks |-> <<P(body)>>] : body \in SeqsUpTo(BodyNodes, MaxBody)}
    \cup {[containers |-> 1, blocks |-> <<ExampleParagraph>>]}

\* documents of several blocks: every sequence over BlockKinds
BlockKinds ==
    { P(<<Text(<<"lead">>), ANamed, LParen>>),
      P(<<ADog>>),
      P(<<LParen, ADog, ADomestication, RParen, AExternal>>),
      Block("p", "", FALSE, <<ADomestication, RParen>>),
      Block("div", "thumb", TRUE, <<AAnimal, RParen>>),
      Block("table", "sidebar", TRUE, <<AAnimal>>) }
SeveralBlockDocs ==
    {[containers |-> c, blocks |-> bs] :
        c \in 0..2, bs \in SeqsUpTo(BlockKinds, MaxBlocks)}

Documents == OneParagraphDocs \cup SeveralBlockDocs

InitLink ==
    /\ pc = "link_call"
    /\ soup \in Documents
    /\ xlink_i \in 1..MaxI
    /\ xout = None
    /\ string = <<>> /\ spans = <<>>
    /\ NoTraversal

CallExtractLink ==
    /\ pc = "link_call"
    /\ xout' = extract_link(soup, xlink_i)
    /\ pc' = "link_done"
    /\ UNCHANGED <<string, spans, soup, xlink_i,
                   start_url, link_i, pages, next_page,
                   hop_i, state, returned, calls>>

NextLink == CallExtractLink

SpecLink == InitLink /\ [][NextLink]_vars

(***************************************************************************)
(* WIKI URL TO OBJECT                                                      *)
(***************************************************************************)
WIKIPEDIA_BASE_URL == <<"https:", "/", "/", "en.wikipedia.org">>
WIKI_PAGEID_OF_PHILOSOPHY == 13692155
WIKI_URL_OF_PHILOSOPHY == WikiPrefix \o <<"Philosophy">>

\* check_url: url.startswith("http")
check_url(url) ==
    IF url # <<>> /\ url[1] \in {"http:", "https:"} THEN url
    ELSE WIKIPEDIA_BASE_URL \o url

\* the symbols that hold a "%", and what unquote makes of them
Unquoted == [x \in {"D%6Fg"} |-> "Dog"]

\* encode_fix
encode_fix(url) ==
    IF \E k \in 1..Len(url) : url[k] \in DOMAIN Unquoted
    THEN [k \in 1..Len(url) |->
             IF url[k] \in DOMAIN Unquoted THEN Unquoted[url[k]] ELSE url[k]]
    ELSE url

\* url.split("/")[-1]
LastSegment(url) ==
    LET slashes == {k \in 1..Len(url) : url[k] = "/"}
        last == IF slashes = {} THEN 0
                ELSE CHOOSE k \in slashes : \A m \in slashes : m <= k
    IN  SubSeq(url, last + 1, Len(url))

\* The encyclopedia the collaborators serve: the identifiers of its pages,
\* by canonical title.
PageIdOf ==
    [Dog |-> 12345, Domestication |-> 67890,
     Philosophy |-> WIKI_PAGEID_OF_PHILOSOPHY,
     A |-> 1, B |-> 2, C |-> 3, D |-> 4, E |-> 5, Berlin |-> 6]

\* the title normalisation of the metadata service: "dog" names the page Dog
Normalized(name) == IF name = "dog" THEN "Dog" ELSE name

\* DATA["query"]["pages"] of the metadata answer for titles = segment
Metadata(segment) ==
    IF Len(segment) = 1 /\ Normalized(segment[1]) \in DOMAIN PageIdOf
    THEN LET t == Normalized(segment[1])
         IN  [missing |-> FALSE,
              pageid |-> PageIdOf[t],
              fullurl |-> WIKIPEDIA_BASE_URL \o WikiHref(t),
              pagelanguage |-> IF t = "Berlin" THEN "de" ELSE "en"]
    ELSE [missing |-> TRUE]

\* a page whose lead paragraph links, after a parenthesised aside, to names
LinkDoc(names) ==
    [containers |-> 1,
     blocks |-> << Block("div", "hatnote", TRUE, <<AAnimal>>),
                   P(<<LParen, AAnimal, RParen>>
                     \o [k \in 1..Len(names) |->
                            Anchor(WikiHref(names[k]), <<names[k]>>)]) >>]

\* The markup the content collaborator may serve for a page (the live
\* content can change between two requests), by canonical title.
Markup ==
    [Dog |-> {LinkDoc(<<"Domestication", "A">>), LinkDoc(<<"A", "Domestication">>)},
     Domestication |-> {LinkDoc(<<"Philosophy", "dog">>), LinkDoc(<<"B", "Philosophy">>)},
     Philosophy |-> {LinkDoc(<<"E", "Philosophy">>)},
     A |-> {LinkDoc(<<"B", "C">>)},
     B |-> {LinkDoc(<<"C", "D">>), LinkDoc(<<"Missing", "Berlin">>)},
     C |-> {LinkDoc(<<"D", "dog">>), LinkDoc(<<"dog", "A">>),
            [containers |-> 1, blocks |-> <<P(<<Text(<<"lead">>)>>)>>],
            [containers |-> 1, blocks |-> <<P(<<AFile>>)>>]},
     D |-> {LinkDoc(<<"E", "D%6Fg">>)},
     E |-> {LinkDoc(<<"Philosophy", "A">>), LinkDoc(<<"A", "E">>)},
     Berlin |-> {LinkDoc(<<"Dog", "A">>)}]

\* an exception leaving the function
Raises == [tag |-> "raise"]

Page(db_rowid, wiki_pageid, pagetitle, ithlink, i, fullurl, titleurl, parent_rowid) ==
    [db_rowid |-> db_rowid, wiki_pageid |-> wiki_pageid, pagetitle |-> pagetitle,
     ithlink |-> ithlink, i |-> i, fullurl |-> fullurl, titleurl |-> titleurl,
     parent_rowid |-> parent_rowid]

\* lines 359-382, on what the call of extract_link did
PageOrNone(meta, extracted, i) ==
    IF extracted.raised THEN None             \* except Exception
    ELSE IF extracted.ret[1] = None THEN None \* No link found
    ELSE Page(None, meta.pageid, LastSegment(meta.fullurl), extracted.ret[1],
              i, meta.fullurl, LastSegment(meta.fullurl), None)

\* url_to_page_obj(url, link_i): the outcomes the collaborators allow.  The
\* metadata request (lines 337-339) is outside any try block, so a transport
\* fault there leaves the function as an exception; requests.get inside
\* extract_link may fail too, and that exception is caught (line 362).
url_to_page_obj(url, i) ==
    LET meta == Metadata(LastSegment(encode_fix(check_url(url))))
    IN  {Raises}
        \cup IF meta.missing THEN {None}
             ELSE IF meta.pagelanguage # "en" THEN {None}
             ELSE {None}
                  \cup {PageOrNone(meta, x, i) :
                          x \in {extract_link(d, i) :
                                   d \in Markup[LastSegment(meta.fullurl)[1]]}}

\* the names the pages of the encyclopedia link to
LinkedNames ==
    {"Dog", "dog", "D%6Fg", "Domestication", "Philosophy",
     "A", "B", "C", "D", "E", "Berlin", "Missing", "Animal"}

(***************************************************************************)
(* THE WIKI HOPPER                                                         *)
(***************************************************************************)
\* while True in place of the bounded loop
LoopForever(h) == TRUE

\* range(0, MAX_HOPS) left one iteration too long
LoopContinuesOnceMore(h) == h <= MAX_HOPS

\* for hop_i in range(0, MAX_HOPS): another iteration follows h completed
LoopContinues(h) == h < MAX_HOPS

\* the membership test with the start page left out
InCycleAfterStart(np, ps) ==
    np.wiki_pageid \in {ps[k].wiki_pageid : k \in 2..Len(ps)}

\* next_page.wiki_pageid in [p.wiki_pageid for p in pages]
InCycle(np, ps) ==
    np.wiki_pageid \in {ps[k].wiki_pageid : k \in 1..Len(ps)}

StartUrls ==
    { WIKIPEDIA_BASE_URL \o WikiHref("Dog"),
      WikiHref("Dog"),
      WikiHref("D%6Fg"),
      WikiHref("Domestication"),
      WikiHref("A"),
      WikiHref("C"),
      WIKIPEDIA_BASE_URL \o WikiHref("E"),
      WikiHref("Berlin"),
      WikiHref("Missing"),
      <<"Dog">> }

\* the urls a traversal can hand to url_to_page_obj
ResolverUrls ==
    {encode_fix(u) : u \in StartUrls} \cup {WikiHref(n) : n \in LinkedNames}

\* url_to_page_obj, tabulated over those urls and the link indexes tried
Resolved == [u \in ResolverUrls, i \in 1..MaxI |-> url_to_page_obj(u, i)]

Init ==
    /\ pc = "hop_call"
    /\ start_url \in StartUrls
    /\ link_i \in 1..MaxI
    /\ pages = <<>> /\ next_page = None /\ hop_i = 0
    /\ state = "Start" /\ returned = None /\ calls = 0
    /\ string = <<>> /\ spans = <<>>
    /\ NoExtraction

Untouched == UNCHANGED <<string, spans, soup, xlink_i, xout, start_url, link_i>>

\* the function ends: value is returned (or the exception leaves it)
Ends(exit, value) ==
    /\ pc' = "hop_done"
    /\ state' = exit
    /\ returned' = value

\* lines 393-410: the start page
StartPage ==
    /\ pc = "hop_call"
    /\ calls' = calls + 1
    /\ \E start \in Resolved[encode_fix(start_url), link_i] :
          \/ /\ start = Raises
             /\ Ends("Raised", Raises)
             /\ UNCHANGED pages
          \/ /\ start = None
             /\ Ends("ResolutionFailed", None)
             /\ UNCHANGED pages
          \/ /\ start \notin {Raises, None}
             /\ pages' = <<start>>
             /\ pc' = "loop"
             /\ state' = "Hopping"
             /\ UNCHANGED returned
    /\ UNCHANGED <<next_page, hop_i>>
    /\ Untouched

\* lines 413-436: one iteration of the loop
Hop ==
    /\ pc = "loop"
    /\ LoopContinues(hop_i)
    /\ calls' = calls + 1
    /\ \E r \in Resolved[pages[Len(pages)].ithlink.str, link_i] :
          \/ /\ r = Raises
             /\ Ends("Raised", Raises)
             /\ UNCHANGED <<pages, next_page, hop_i>>
          \/ /\ r = None
             /\ next_page' = r
             /\ Ends("ResolutionFailed", None)
             /\ UNCHANGED <<pages, hop_i>>
          \/ /\ r \notin {Raises, None}
             /\ next_page' = r
             /\ IF InCycle(r, pages)
                THEN /\ Ends("CycleDetected", None)
                     /\ UNCHANGED <<pages, hop_i>>
                ELSE IF r.ithlink = PyStr(WIKI_URL_OF_PHILOSOPHY)
                THEN /\ Ends("Converged", PyList(pages))  \* break
                     /\ UNCHANGED <<pages, hop_i>>
                ELSE /\ pages' = Append(pages, r)
                     /\ hop_i' = hop_i + 1
                     /\ UNCHANGED <<pc, state, returned>>
    /\ Untouched

\* line 439, reached when the loop ran out of iterations
LoopEnds ==
    /\ pc = "loop"
    /\ ~LoopContinues(hop_i)
    /\ Ends("BudgetExhausted", PyList(pages))
    /\ UNCHANGED <<pages, next_page, hop_i, calls>>
    /\ Untouched

Next == StartPage \/ Hop \/ LoopEnds

Spec == Init /\ [][Next]_vars

\* the call is not abandoned half way: a step that can be taken is taken
FairSpec == Spec /\ WF_vars(Next)

C2_ConvergedChainEndsWithFinalPage ==
    state = "Converged" =>
        /\ next_page.ithlink = PyStr(WIKI_URL_OF_PHILOSOPHY)
        /\ returned.list # <<>>
        /\ returned.list[Len(returned.list)] = next_page

\* C3: the traversal ends in BudgetExhausted exactly when all MAX_HOPS
\* iterations completed, and the chain it then returns has MAX_HOPS + 1
\* pages.
C3_BudgetExhaustedLength ==
    /\ hop_i <= MAX_HOPS
    /\ state = "BudgetExhausted" =>
          /\ returned = PyList(pages)
          /\ Len(returned.list) = MAX_HOPS + 1
    /\ (pc = "hop_done" /\ hop_i = MAX_HOPS) => state = "BudgetExhausted"
    /\ (pc = "hop_done" /\ state = "BudgetExhausted") => hop_i = MAX_HOPS

C3_Witness ==
    /\ state = "BudgetExhausted"
    /\ Len(returned.list) = MAX_HOPS + 1
    /\ hop_i = MAX_HOPS

\* C4: the pages of the chain have pairwise distinct identifiers and all
\* carry the link index passed to the traversal.
C4_DistinctIdsSameIndex ==
    \A j \in 1..Len(pages) :
        /\ pages[j].i = link_i
        /\ \A k \in 1..Len(pages) :
              j # k => pages[j].wiki_pageid # pages[k].wiki_pageid

C4_Witness ==
    /\ Len(pages) >= 3
    /\ link_i = 2
    /\ pc = "loop"

\* C5: url_to_page_obj never raises to its caller, so no traversal is
\* aborted by an exception.
C5_ResolverNeverRaises ==
    state # "Raised"

\* C6: every traversal ends, after at most MAX_HOPS + 1 calls of the
\* resolver; one in which every resolver call returned ends in one of
\* Converged, CycleDetected, BudgetExhausted, ResolutionFailed, and a failure
\* on the start page gives ResolutionFailed with no hop made.
C6_Terminates ==
    /\ <>(pc = "hop_done")
    /\ [](calls <= MAX_HOPS + 1)
    /\ [](pc # "hop_done" => state \in {"Start", "Hopping"})
    /\ []((pc = "hop_done" /\ state # "Raised") =>
            /\ state \in {"Converged", "CycleDetected",
                          "BudgetExhausted", "ResolutionFailed"}
            /\ pages = <<>> => (state = "ResolutionFailed" /\ calls = 1))

\* a traversal that ended on the last resolution the budget allows
C6_Witness ==
    /\ pc = "hop_done"
    /\ calls = MAX_HOPS + 1
    /\ state \in {"Converged", "CycleDetected", "ResolutionFailed"}

(***************************************************************************)
(* Properties of extract_link.                                             *)
(***************************************************************************)
\* the qualifying links of the first min(3, totalParagraphs) paragraphs, in
\* paragraph order then left-to-right order
QualifyingLinks(d) ==
    LET ps == Paragraphs(d)
        x == IF Len(ps) > max_paras THEN max_paras ELSE Len(ps)
    IN  Concat([n \in 1..x |-> ParagraphLinks(ps[n])])

TripleOf(link) == <<PyStr(link.href), PyStr(link.text), PyStr(link.title)>>

\* the parenthetical spans of the whole document's serialization
DocumentSpans(d) == StrsInParen(StrSoup(CleanUp(d.blocks)))

\* C8: when the primary strategy collects at least i links, extract_link
\* returns the i-th qualifying link of the first min(3, totalParagraphs)
\* paragraphs; the link returned has the prefix "/wiki/", and for the
\* paragraph with links [L1 (in parens), L2, L3] and i = 1 it is L2.
C8_ReturnsIthPrimaryLink ==
    (pc = "link_done" /\ Len(xout.primary) >= xlink_i) =>
        /\ ~xout.raised
        /\ xout.ret = TripleOf(QualifyingLinks(soup)[xlink_i])
        /\ StartsWith(xout.ret[1].str, WikiPrefix)
        /\ (soup.blocks = <<ExampleParagraph>> /\ xlink_i = 1) =>
              xout.ret = TripleOf(ADomestication)

\* C9: after the fallback strategy ran, no link left in the list links is
\* contained in a parenthetical span of the whole document's serialization.
C9_FallbackDropsParenthesized ==
    (pc = "link_done" /\ xout.fallbacks = 1) =>
        \A k \in 1..Len(xout.links) : ~InParen(xout.links[k], DocumentSpans(soup))

\* C10: the fallback runs (once) exactly when the first min(3,
\* totalParagraphs) paragraphs hold no qualifying link; when the primary
\* strategy collected at least one link and fewer than i, the fallback does
\* not run and the call returns (None, None, None).
C10_FallbackIffPrimaryEmpty ==
    pc = "link_done" =>
        /\ xout.fallbacks \in {0, 1}
        /\ xout.fallbacks = 1 <=> QualifyingLinks(soup) = <<>>
        /\ (Len(xout.primary) >= 1 /\ Len(xout.primary) < xlink_i) =>
              /\ xout.fallbacks = 0
              /\ xout.links = xout.primary
              /\ ~xout.raised
              /\ xout.ret = NoneTriple

\* a call where the primary strategy found one link, i is 2 and the whole
\* document holds two links the fallback would have kept
C10_Witness ==
    /\ pc = "link_done"
    /\ xlink_i = 2
    /\ Len(xout.primary) = 1
    /\ Len(FallbackLinks(soup)) >= 2
    /\ xout.fallbacks = 0
    /\ xout.ret = NoneTriple

(***************************************************************************)
(* Matched parenthesis pairs, stated without a stack.                      *)
(***************************************************************************)
CountOf(t, ch) == Cardinality({k \in 1..Len(t) : t[k] = ch})

\* every ")" of t closes a "(" of t and every "(" of t is closed in t
Balanced(t) ==
    /\ CountOf(t, "(") = CountOf(t, ")")
    /\ \A n \in 0..Len(t) :
          CountOf(SubSeq(t, 1, n), "(") >= CountOf(SubSeq(t, 1, n), ")")

\* the "(" at i and the ")" at j are a matched pair of s
Matched(s, i, j) ==
    /\ i < j /\ s[i] = "(" /\ s[j] = ")"
    /\ Balanced(SubSeq(s, i + 1, j - 1))

\* the positions of the closing parentheses that have a partner
Closers(s) == {j \in 1..Len(s) : \E i \in 1..Len(s) : Matched(s, i, j)}

OpenerOf(s, j) == CHOOSE i \in 1..Len(s) : Matched(s, i, j)

\* the "(" before i that are still open when the pair (i, j) closes
OpenAround(s, i, j) ==
    {k \in 1..(i - 1) : s[k] = "(" /\ ~ \E m \in (k + 1)..(j - 1) : Matched(s, k, m)}

\* the n-th smallest element of the set of positions S
NthOf(S, n) == CHOOSE j \in S : Cardinality({q \in S : q < j}) = n - 1

SpansAsClaimed(s, out) ==
    /\ Len(out) = Cardinality(Closers(s))
    /\ \A n \in 1..Len(out) :
          LET j == NthOf(Closers(s), n)
              i == OpenerOf(s, j)
          IN  out[n] = <<Cardinality(OpenAround(s, i, j)), SubSeq(s, i + 1, j - 1)>>

\* C7: parenthetic_contents yields exactly one (depth, contents) pair per
\* matched parenthesis pair, in the order of the closing parentheses, with
\* depth the number of parentheses still open around the pair (0 at top
\* level) and contents the text strictly between the two; unmatched
\* parentheses yield nothing, a string without parentheses yields nothing,
\* and "(a(b)c)" yields (1, "b") then (0, "a(b)c").
C7_SpansArePairs ==
    pc = "paren_done" =>
        /\ SpansAsClaimed(string, spans)
        /\ (CountOf(string, "(") = 0 \/ CountOf(string, ")") = 0) => spans = <<>>
        /\ string = ExampleString =>
              spans = << <<1, <<"b">> >>, <<0, <<"a", "(", "b", ")", "c">> >> >>

\* a call on a string with a nested pair, a stray ")" and a "(" never closed
C7_Witness ==
    /\ pc = "paren_done"
    /\ string = <<")", "(", "(", "a", ")">>
    /\ spans = << <<1, <<"a">> >> >>

====
